---- MODULE Spec2Model ----
(***************************************************************************)
(* Model of src/index.js: a Telegram bot that checks phone numbers         *)
(* against WhatsApp through one whatsapp-web.js session.                    *)
(*                                                                         *)
(* The program is single-threaded JavaScript.  Every action below is one   *)
(* run-to-completion segment of a handler: from the event (or the settled  *)
(* promise) that resumes it, through all synchronous code and microtasks,  *)
(* up to the next await of something external (a Telegram call, a          *)
(* WhatsApp call, a timer).                                                *)
(*                                                                         *)
(* The libraries are not part of the repository.  They are modelled as an  *)
(* environment: a Telegram call always resolves (spec.md, section 1), an   *)
(* isRegisteredUser call resolves with the service's current answer or     *)
(* rejects, initialize() and destroy() resolve or reject.  A client object *)
(* may emit "qr", "ready" and "auth_failure" from the moment its handlers  *)
(* are registered (lines 125-171, before initialize() is called on line    *)
(* 174) until destroy() is called on it or its initialize() fails.  It     *)
(* emits "disconnected" only after it has been ready, possibly more than   *)
(* once for one loss of the session and possibly before its initialize()   *)
(* has returned, and no longer once its destroy() has resolved or its      *)
(* initialize() has failed.                                                *)
(***************************************************************************)
EXTENDS Integers, Sequences, FiniteSets, TLC

(***************************************************************************)
(* Bounds of the model.                                                    *)
(***************************************************************************)
MaxReq == 2          \* inbound messages of one run
MaxFaults == 2       \* rejected external calls (check, initialize, destroy)
MaxSvcChanges == 1   \* times the network changes its answer for a number
MaxClients == 3      \* Client objects created in one run
MaxQr == 2           \* pairing codes emitted in one run
MaxDisc == 2         \* "disconnected" events in one run

(***************************************************************************)
(* Program constants.                                                      *)
(***************************************************************************)
maxNumbers == 50     \* line 255
batchSize == 5       \* line 304
minLength == 8       \* line 248: n.length > 8

(***************************************************************************)
(* Text.  A character is a one-character string, a line a sequence of      *)
(* characters, a message text a sequence of lines (the result of           *)
(* text.split(/\r?\n/) on line 248).                                       *)
(***************************************************************************)
Digits == {"0", "1", "2", "3", "4", "5", "6", "7", "8", "9"}

IsDigit(c) == c \in Digits

\* num.replace(/\D/g, "") on line 210
StripNonDigits(num) == SelectSeq(num, IsDigit)

\* function normalize, lines 209-213
normalize(num) ==
  LET d == StripNonDigits(num)
  IN  IF Len(d) > 0 /\ d[1] = "0" THEN <<"6", "2">> \o Tail(d) ELSE d

\* String.prototype.toLowerCase on the letters the model uses (line 234)
ToLowerChar(c) == CASE c = "Q" -> "q" [] c = "R" -> "r" [] OTHER -> c

ToLower(line) == [k \in 1..Len(line) |-> ToLowerChar(line[k])]

MapNormalize(lines) == [k \in 1..Len(lines) |-> normalize(lines[k])]

\* A filter that also keeps the strings of exactly 8 characters.
LongEnough_atLeast(n) == Len(n) >= minLength

LongEnough(n) == Len(n) > minLength

\* line 248: text.split(/\r?\n/).map(normalize).filter(n => n.length > 8)
ParseNumbers(lines) == SelectSeq(MapNormalize(lines), LongEnough)

\* The text of a message as one line, when it has exactly one line.
IsLine(text, line) == Len(text) = 1 /\ text[1] = line

\* line 225: !text (no text, or only whitespace before trim())
NoText(text) == text = <<>> \/ IsLine(text, <<>>)

StartCmd == <<"/", "s", "t", "a", "r", "t">>
QrCmd == <<"q", "r">>

(***************************************************************************)
(* The inputs.  Raw lines as a user types them.                            *)
(***************************************************************************)
LineA == <<"0", "8", "1", "2", "3", "4", "5", "6", "7">>
LineB == <<"+", "6", "2", " ", "8", "1", "2", "-", "3", "4", "5", "-", "6", "7", "8">>
LineC == <<"6", "2", "8", "1", "2", "3", "4", "5", "6", "9">>
LineShort == <<"0", "8", "1", "2", "3", "4", "5", "6">>
LineEight == <<"8", "1", "2", "-", "3", "4", "5", "6", "7">>
LineSeven == <<"0", "8", "1", "2", "3", "4", "5">>
LineJunk == <<"h", "a", "l", "o">>

IdA == normalize(LineA)
IdB == normalize(LineB)
IdC == normalize(LineC)
IdShort == normalize(LineShort)

Ids == {IdA, IdB, IdC, IdShort}

Repeat(lines, n) == [k \in 1..n |-> lines[((k - 1) % Len(lines)) + 1]]

TextStart == <<StartCmd>>
TextQr == <<<<"Q", "r">>>>
TextNone == <<>>
TextJunk == <<LineJunk, <<>>, LineEight, LineSeven>>
TextOne == <<LineA>>
TextC == <<LineC>>
TextTwo == <<LineB, LineShort, LineA>>
TextDup == <<LineA, LineB, LineA>>
TextSeven == <<LineA, LineB, LineA, LineA, LineB, LineA, LineB>>
TextEight == <<LineA, LineC, LineB, LineA, LineA, LineB, LineA, LineB>>
TextFifty == Repeat(<<LineA, LineB, LineC>>, maxNumbers)
TextFiftyOne == Repeat(<<LineA, LineB, LineC>>, maxNumbers + 1)

(***************************************************************************)
(* A scenario is what the environment does in one run: the messages the    *)
(* users send, in order, and how often each kind of environment event may  *)
(* happen.  It is chosen in Init and never changes.                        *)
(*   checkFaults  isRegisteredUser calls that reject                       *)
(*   sessFaults   initialize() / destroy() calls that reject               *)
(*   changes      times the network changes its answer for a number        *)
(*   clients      Client objects created                                   *)
(*   qrs, auths, discs   "qr", "auth_failure", "disconnected" events       *)
(***************************************************************************)
Quiet ==
  [msgs |-> <<>>, checkFaults |-> 0, sessFaults |-> 0, changes |-> 0,
   clients |-> 1, qrs |-> 0, auths |-> 0, discs |-> 0]

\* the session life cycle alone
ScenSession ==
  [Quiet EXCEPT !.sessFaults = MaxFaults, !.clients = MaxClients,
                !.qrs = 1, !.auths = 1, !.discs = MaxDisc]

\* the commands and the pairing code
ScenCommands ==
  [Quiet EXCEPT !.msgs = <<TextQr, TextStart>>, !.clients = 2,
                !.qrs = MaxQr, !.auths = 1, !.discs = 1]

\* a command while the session cannot be initialized
ScenRetry ==
  [Quiet EXCEPT !.msgs = <<TextStart>>, !.sessFaults = MaxFaults,
                !.clients = MaxClients]

\* a request while the session is being paired
ScenPairing ==
  [Quiet EXCEPT !.msgs = <<TextOne, TextJunk>>, !.qrs = 1, !.auths = 1]

\* texts without numbers
ScenJunk == [Quiet EXCEPT !.msgs = <<TextJunk, TextNone>>]

\* two requests over the same numbers
ScenTwo ==
  [Quiet EXCEPT !.msgs = <<TextOne, TextDup>>, !.checkFaults = MaxFaults]

\* three requests
ScenThree ==
  [Quiet EXCEPT !.msgs = <<TextOne, TextOne, TextC>>, !.checkFaults = 1]

\* more than one batch
ScenSeven ==
  [Quiet EXCEPT !.msgs = <<TextSeven>>, !.checkFaults = 1,
                !.changes = MaxSvcChanges]

\* more than one batch after a cache hit
ScenCached ==
  [Quiet EXCEPT !.msgs = <<TextC, TextEight>>]

\* a session teardown in the middle of a request
ScenTeardown ==
  [Quiet EXCEPT !.msgs = <<TextSeven>>, !.clients = 2, !.discs = 1]

\* the limits
ScenFifty == [Quiet EXCEPT !.msgs = <<TextFifty>>]

ScenFiftyOne == [Quiet EXCEPT !.msgs = <<TextFiftyOne, TextTwo>>]

AllScenarios ==
  {ScenSession, ScenCommands, ScenRetry, ScenPairing, ScenJunk, ScenTwo,
   ScenThree,
   ScenSeven, ScenCached, ScenTeardown, ScenFifty, ScenFiftyOne}

Scenarios == {s \in AllScenarios : Len(s.msgs) <= MaxReq}

VARIABLES
  waClient,        \* line 22: 0 (null) or the current Client object
  qrReady,         \* line 23
  qrImage,         \* line 24: 0 (null) or the pairing code the image shows
  isReconnecting,  \* line 25
  checkedNumbers,  \* line 28: the Map, a function from its keys
  clients,         \* the Client objects created so far, in order
  handlers,        \* the activations of the "disconnected" handler
  timers,          \* pending setTimeout retries of line 191
  rendering,       \* pairing codes whose qrcode.toBuffer has not settled
  req,             \* the activations of the "message" handler
  svc,             \* what the network answers for each number right now
  scen,            \* the scenario of this run
  used,            \* environment events used up so far
  lastOk,          \* history: the last value a successful check returned
  rechecked        \* history: numbers checked again after a success

vars == <<waClient, qrReady, qrImage, isReconnecting, checkedNumbers, clients,
          handlers, timers, rendering, req, svc, scen, used, lastOk, rechecked>>

sessionVars == <<waClient, qrReady, qrImage, isReconnecting, clients,
                 handlers, timers, rendering>>

requestVars == <<checkedNumbers, req, svc, lastOk, rechecked>>

Reqs == 1..MaxReq

EmptyMap == [k \in {} |-> TRUE]

\* new Client(...) on line 120, before initialize() has settled; qr is the
\* last pairing code the client has emitted (0: none).
NewClient(origin, h) ==
  [init |-> "pending", origin |-> origin, handler |-> h,
   closing |-> FALSE, destroyed |-> FALSE, up |-> FALSE, wasUp |-> FALSE,
   qr |-> 0]

\* An activation of the "message" handler before its message has arrived.
\* kind, verdict, sessionUp, cacheAt, via, calls, settled, batches, edits,
\* delays, regBefore, unrBefore, writes, first, fresh and shown record what
\* the activation did (first: the position in the current batch of the
\* check that settled first; fresh: the last pairing code the current
\* client had emitted when the message arrived); the other fields are the
\* handler's local variables.
IdleReq ==
  [pc |-> "idle", kind |-> "idle", verdict |-> "none", sessionUp |-> FALSE,
   numbers |-> <<>>, cacheAt |-> EmptyMap,
   cached |-> <<>>, uncached |-> <<>>, i |-> 0, batch |-> <<>>, res |-> <<>>,
   registered |-> <<>>, unregistered |-> <<>>, processedCount |-> 0,
   shown |-> <<>>, out |-> <<>>, photo |-> 0, via |-> 0, calls |-> 0,
   batches |-> 0, settled |-> 0,
   edits |-> 0, delays |-> 0, regBefore |-> 0, unrBefore |-> 0, writes |-> 0,
   first |-> 0, fresh |-> 0]

\* The state when the module has been loaded: line 203 has called
\* startWhatsApp(), which ran up to its await on line 174.
Init ==
  /\ scen \in Scenarios
  /\ waClient = 1
  /\ clients = <<NewClient("boot", 0)>>
  /\ qrReady = FALSE
  /\ qrImage = 0
  /\ isReconnecting = FALSE
  /\ checkedNumbers = EmptyMap
  /\ handlers = <<>>
  /\ timers = 0
  /\ rendering = {}
  /\ req = [r \in Reqs |-> IdleReq]
  /\ svc = [x \in Ids |-> x = IdA]
  /\ used = [checkFaults |-> 0, sessFaults |-> 0, changes |-> 0, qrs |-> 0,
             auths |-> 0, discs |-> 0]
  /\ lastOk = EmptyMap
  /\ rechecked = {}

(***************************************************************************)
(* The WhatsApp session: startWhatsApp and the handlers it registers.      *)
(***************************************************************************)
\* A client that can emit "qr", "ready" and "auth_failure" and answer
\* calls: its handlers are registered, destroy() has not been called on it
\* and its initialize() has not failed.
Live(c) ==
  /\ c \in 1..Len(clients)
  /\ ~clients[c].closing
  /\ clients[c].init # "failed"

\* A client that can emit "disconnected": it has been ready, its
\* initialize() has not failed and its destroy() has not resolved.
CanDisconnect(c) ==
  /\ c \in 1..Len(clients)
  /\ clients[c].init # "failed"
  /\ clients[c].wasUp
  /\ ~clients[c].destroyed

Use(what) == used' = [used EXCEPT ![what] = @ + 1]

\* startWhatsApp, lines 80-174: a new Client replaces waClient and
\* initialize() is awaited.
StartWhatsApp(origin, h) ==
  /\ Len(clients) < scen.clients
  /\ clients' = Append(clients, NewClient(origin, h))
  /\ waClient' = Len(clients) + 1

\* line 174 resolves: startWhatsApp returns, and so does the disconnected
\* handler that awaits it on line 161.
InitializeResolves(c) ==
  /\ c \in 1..Len(clients)
  /\ clients[c].init = "pending"
  /\ clients' = [clients EXCEPT ![c].init = "ok"]
  /\ handlers' = IF clients[c].handler = 0 THEN handlers
                 ELSE [handlers EXCEPT ![clients[c].handler].pc = "done"]
  /\ UNCHANGED <<waClient, qrReady, qrImage, isReconnecting, timers,
                 rendering, used, scen>>
  /\ UNCHANGED requestVars

\* A failed initialize() that is only logged and rethrown, with no
\* setTimeout.
InitializeRejects_noRetry(c) ==
  /\ c \in 1..Len(clients)
  /\ clients[c].init = "pending"
  /\ used.sessFaults < scen.sessFaults
  /\ Use("sessFaults")
  /\ clients' = [clients EXCEPT ![c].init = "failed"]
  /\ IF clients[c].handler = 0
     THEN UNCHANGED <<isReconnecting, handlers>>
     ELSE /\ isReconnecting' = FALSE
          /\ handlers' = [handlers EXCEPT ![clients[c].handler].pc = "done"]
  /\ UNCHANGED <<waClient, qrReady, qrImage, timers, rendering, scen>>
  /\ UNCHANGED requestVars

\* line 174 rejects: lines 175-199 schedule the retry and rethrow; the
\* caller is the disconnected handler (catch on line 162), the timer
\* callback (line 193) or the module (line 203).
InitializeRejects(c) ==
  /\ c \in 1..Len(clients)
  /\ clients[c].init = "pending"
  /\ used.sessFaults < scen.sessFaults
  /\ Use("sessFaults")
  /\ clients' = [clients EXCEPT ![c].init = "failed"]
  /\ timers' = timers + 1
  /\ IF clients[c].handler = 0
     THEN UNCHANGED <<isReconnecting, handlers>>
     ELSE /\ isReconnecting' = FALSE
          /\ handlers' = [handlers EXCEPT ![clients[c].handler].pc = "done"]
  /\ UNCHANGED <<waClient, qrReady, qrImage, rendering, scen>>
  /\ UNCHANGED requestVars

\* the setTimeout callback, lines 191-196
RetryTimerFires ==
  /\ timers > 0
  /\ timers' = timers - 1
  /\ StartWhatsApp("timer", 0)
  /\ UNCHANGED <<qrReady, qrImage, isReconnecting, handlers, rendering,
                 used, scen>>
  /\ UNCHANGED requestVars

\* waClient.on("qr"), lines 125-126, up to the await of toBuffer
OnQr(c) ==
  /\ Live(c)
  /\ ~clients[c].up
  /\ used.qrs < scen.qrs
  /\ Use("qrs")
  /\ qrReady' = TRUE
  /\ rendering' = rendering \cup {used.qrs + 1}
  /\ clients' = [clients EXCEPT ![c].qr = used.qrs + 1]
  /\ UNCHANGED <<waClient, qrImage, isReconnecting, handlers, timers, scen>>
  /\ UNCHANGED requestVars

\* lines 127-128: toBuffer resolved, the image is stored
QrRendered(code) ==
  /\ code \in rendering
  /\ rendering' = rendering \ {code}
  /\ qrImage' = code
  /\ UNCHANGED <<waClient, qrReady, isReconnecting, clients, handlers,
                 timers, used, scen>>
  /\ UNCHANGED requestVars

\* waClient.on("ready"), lines 131-135
OnReady(c) ==
  /\ Live(c)
  /\ ~clients[c].up
  /\ clients' = [clients EXCEPT ![c].up = TRUE, ![c].wasUp = TRUE]
  /\ qrReady' = FALSE
  /\ isReconnecting' = FALSE
  /\ UNCHANGED <<waClient, qrImage, handlers, timers, rendering, used, scen>>
  /\ UNCHANGED requestVars

\* waClient.on("auth_failure"), lines 168-171
OnAuthFailure(c) ==
  /\ Live(c)
  /\ ~clients[c].up
  /\ used.auths < scen.auths
  /\ Use("auths")
  /\ qrReady' = TRUE
  /\ UNCHANGED <<waClient, qrImage, isReconnecting, clients, handlers,
                 timers, rendering, scen>>
  /\ UNCHANGED requestVars

\* waClient.on("disconnected"), lines 137-152: the guard, the flag and the
\* call of destroy() on whatever waClient is now.
OnDisconnected(c) ==
  /\ CanDisconnect(c)
  /\ used.discs < scen.discs
  /\ Use("discs")
  /\ IF isReconnecting
     THEN /\ clients' = [clients EXCEPT ![c].up = FALSE]
          /\ UNCHANGED <<isReconnecting, handlers>>
     ELSE /\ isReconnecting' = TRUE
          /\ IF waClient # 0
             THEN /\ clients' = [clients EXCEPT ![c].up = FALSE,
                                                ![waClient].closing = TRUE]
                  /\ handlers' = Append(handlers,
                                        [pc |-> "destroy", target |-> waClient])
             ELSE /\ clients' = [clients EXCEPT ![c].up = FALSE]
                  /\ handlers' = Append(handlers,
                                        [pc |-> "delay", target |-> 0])
  /\ UNCHANGED <<waClient, qrReady, qrImage, timers, rendering, scen>>
  /\ UNCHANGED requestVars

\* line 152 resolves; line 153; delay(3000) is awaited on line 157
DestroyResolves(h) ==
  /\ h \in 1..Len(handlers)
  /\ handlers[h].pc = "destroy"
  /\ waClient' = 0
  /\ clients' = [clients EXCEPT ![handlers[h].target].destroyed = TRUE]
  /\ handlers' = [handlers EXCEPT ![h].pc = "delay"]
  /\ UNCHANGED <<qrReady, qrImage, isReconnecting, timers, rendering,
                 used, scen>>
  /\ UNCHANGED requestVars

\* line 152 rejects: the catch on lines 162-165
DestroyRejects(h) ==
  /\ h \in 1..Len(handlers)
  /\ handlers[h].pc = "destroy"
  /\ used.sessFaults < scen.sessFaults
  /\ Use("sessFaults")
  /\ isReconnecting' = FALSE
  /\ handlers' = [handlers EXCEPT ![h].pc = "done"]
  /\ UNCHANGED <<waClient, qrReady, qrImage, clients, timers, rendering, scen>>
  /\ UNCHANGED requestVars

\* line 157 resolves; line 161 calls startWhatsApp
ReconnectDelayElapses(h) ==
  /\ h \in 1..Len(handlers)
  /\ handlers[h].pc = "delay"
  /\ StartWhatsApp("disc", h)
  /\ handlers' = [handlers EXCEPT ![h].pc = "start"]
  /\ UNCHANGED <<qrReady, qrImage, isReconnecting, timers, rendering,
                 used, scen>>
  /\ UNCHANGED requestVars

(***************************************************************************)
(* The "message" handler, lines 221-365.                                   *)
(***************************************************************************)
Min(a, b) == IF a < b THEN a ELSE b

Has(map, k) == k \in DOMAIN map

\* checkedNumbers.set(num, result), line 315
MapSet(map, k, v) == (k :> v) @@ map

\* The session is connected: the current client has signalled "ready" and
\* has neither disconnected nor been destroyed since.
SessionReady ==
  /\ waClient # 0
  /\ clients[waClient].up
  /\ ~clients[waClient].closing

\* line 249
NoNumbers(numbers) == Len(numbers) = 0

\* The limit test with >= in place of >.
TooMany_offByOne(numbers) == Len(numbers) >= maxNumbers

\* line 255
TooMany(numbers) == Len(numbers) > maxNumbers

\* line 261
NotReady == waClient = 0 \/ qrReady

\* A partition that treats only the numbers cached as registered as cached.
CachedOf_registeredOnly(numbers, map) ==
  SelectSeq(numbers, LAMBDA n : Has(map, n) /\ map[n])

\* lines 271-280
CachedOf(numbers, map) == SelectSeq(numbers, LAMBDA n : Has(map, n))

\* A partition that never consults the cache for the uncached list.
UncachedOf_all(numbers, map) == numbers

UncachedOf(numbers, map) == SelectSeq(numbers, LAMBDA n : ~Has(map, n))

Line(num, tag) == [num |-> num, tag |-> tag]

\* lines 283-290: the lines of the cached numbers, in order
HitLines(cached, map, want) ==
  LET keep == SelectSeq(cached, LAMBDA n : map[n] = want)
  IN  [k \in 1..Len(keep) |-> Line(keep[k], IF want THEN "hitT" ELSE "hitF")]

\* A slice without its upper bound: all the remaining numbers at once.
BatchOf_unbounded(uncached, i) == SubSeq(uncached, i + 1, Len(uncached))

\* line 308: uncachedNumbers.slice(i, i + batchSize)
BatchOf(uncached, i) == SubSeq(uncached, i + 1, Min(i + batchSize, Len(uncached)))

Settled(res) == \A k \in 1..Len(res) : res[k] # "pending"

Outstanding(q) == Cardinality({k \in 1..Len(q.res) : q.res[k] = "pending"})

\* lines 326-337: the lines of one batch, in the order of the batch
Indices(res, tags) == SelectSeq([k \in 1..Len(res) |-> k], LAMBDA k : res[k] \in tags)

\* A collection that puts the last check of the batch first.
RegisteredLines_lastFirst(batch, res) ==
  LET ks == Indices(res, {"T"})
  IN  [j \in 1..Len(ks) |-> Line(batch[ks[Len(ks) + 1 - j]], "ok")]

RegisteredLines(batch, res) ==
  LET ks == Indices(res, {"T"})
  IN  [j \in 1..Len(ks) |-> Line(batch[ks[j]], "ok")]

\* A collection that skips the failed checks, as if a rejected check left
\* no value in the results of Promise.allSettled.
UnregisteredLines_dropErrors(batch, res) ==
  LET ks == Indices(res, {"F"})
  IN  [j \in 1..Len(ks) |-> Line(batch[ks[j]], "no")]

UnregisteredLines(batch, res) ==
  LET ks == Indices(res, {"F", "err"})
  IN  [j \in 1..Len(ks) |->
         Line(batch[ks[j]], IF res[ks[j]] = "err" THEN "err" ELSE "no")]

\* A collection that counts only the checks that succeeded.
Collect_countSuccesses(q) ==
  LET count == q.processedCount + Len(Indices(q.res, {"T", "F"}))
  IN  [q EXCEPT !.registered = @ \o RegisteredLines(q.batch, q.res),
                !.unregistered = @ \o UnregisteredLines(q.batch, q.res),
                !.regBefore = Len(q.registered),
                !.unrBefore = Len(q.unregistered),
                !.processedCount = count,
                !.shown = Append(@, count),
                !.edits = @ + 1,
                !.pc = "edit"]

\* lines 326-346: Promise.allSettled has resolved; the results are
\* collected and the progress message is edited.
Collect(q) ==
  LET count == q.processedCount + Len(q.res)
  IN  [q EXCEPT !.registered = @ \o RegisteredLines(q.batch, q.res),
                !.unregistered = @ \o UnregisteredLines(q.batch, q.res),
                !.regBefore = Len(q.registered),
                !.unrBefore = Len(q.unregistered),
                !.processedCount = count,
                !.shown = Append(@, count),
                !.edits = @ + 1,
                !.pc = "edit"]

\* lines 354-364: the final report is sent
Finish(q) == [q EXCEPT !.out = Append(@, "report"), !.pc = "final",
                       !.batch = <<>>, !.res = <<>>, !.first = 0]

\* A batch loop without the try/catch of lines 313-321: with waClient null
\* the TypeError escapes and the handler ends without a report.
IssueBatch_uncaught(q, i) ==
  LET batch == BatchOf(q.uncached, i)
      q1 == [q EXCEPT !.i = i, !.batch = batch, !.batches = @ + 1]
  IN  IF waClient = 0
      THEN [q1 EXCEPT !.pc = "done"]
      ELSE [q1 EXCEPT !.res = [k \in 1..Len(batch) |-> "pending"],
                      !.first = 0,
                      !.via = waClient,
                      !.calls = @ + Len(batch),
                      !.pc = "checking"]

\* A batch loop in which a check on a null waClient counts as a check that
\* returned false.
IssueBatch_nullAsUnregistered(q, i) ==
  LET batch == BatchOf(q.uncached, i)
      q1 == [q EXCEPT !.i = i, !.batch = batch, !.batches = @ + 1]
  IN  IF waClient = 0
      THEN Collect([q1 EXCEPT !.res = [k \in 1..Len(batch) |-> "F"],
                              !.first = 1,
                              !.via = 0])
      ELSE [q1 EXCEPT !.res = [k \in 1..Len(batch) |-> "pending"],
                      !.first = 0,
                      !.via = waClient,
                      !.calls = @ + Len(batch),
                      !.pc = "checking"]

\* lines 307-323 for the batch at index i: every check of the batch is
\* called at once.  With waClient null each call throws inside its try, so
\* the batch settles in the same run (all errors, no external call).
IssueBatch(q, i) ==
  LET batch == BatchOf(q.uncached, i)
      q1 == [q EXCEPT !.i = i, !.batch = batch, !.batches = @ + 1]
  IN  IF waClient = 0
      THEN Collect([q1 EXCEPT !.res = [k \in 1..Len(batch) |-> "err"],
                              !.first = 1,
                              !.via = 0])
      ELSE [q1 EXCEPT !.res = [k \in 1..Len(batch) |-> "pending"],
                      !.first = 0,
                      !.via = waClient,
                      !.calls = @ + Len(batch),
                      !.pc = "checking"]

\* line 307: the loop test, then the batch or the final report
Loop(q, i) == IF i < Len(q.uncached) THEN IssueBatch(q, i) ELSE Finish(q)

\* The numbers for which Loop(q, i) issues an external call although a
\* check of them has succeeded before.
Rechecks(q, i) ==
  IF i < Len(q.uncached) /\ waClient # 0
  THEN {x \in Ids : Has(lastOk, x) /\ \E k \in 1..Len(BatchOf(q.uncached, i)) :
                                        BatchOf(q.uncached, i)[k] = x}
  ELSE {}

\* Outcome lists kept in module-level variables, shared by all activations.
Put_sharedLists(r, q) ==
  [s \in Reqs |->
     IF s = r THEN q
     ELSE [req[s] EXCEPT !.registered = q.registered,
                         !.unregistered = q.unregistered]]

\* The locals of one activation (numbers, registered, unregistered,
\* cachedNumbers, uncachedNumbers, processedCount, i, batch, results:
\* lines 248-311) belong to that activation alone.
Put(r, q) == [req EXCEPT ![r] = q]

\* lines 222-265: a message arrives; the handler runs to its first await.
\* Telegram delivers the messages of a run in order.
Receive(r) ==
  LET text == scen.msgs[r]
      numbers == ParseNumbers(text)
      q == [req[r] EXCEPT !.sessionUp = SessionReady,
                          !.fresh = IF waClient = 0 THEN 0
                                    ELSE clients[waClient].qr]
  IN  /\ r \in Reqs
      /\ r <= Len(scen.msgs)
      /\ req[r].pc = "idle"
      /\ r > 1 => req[r - 1].pc # "idle"
      /\ req' = Put(r,
           IF NoText(text)
             THEN [q EXCEPT !.kind = "notext", !.pc = "done"]
           ELSE IF IsLine(text, StartCmd)
             THEN [q EXCEPT !.kind = "start", !.out = <<"welcome">>,
                            !.pc = "reply"]
           ELSE IF Len(text) = 1 /\ ToLower(text[1]) = QrCmd
             THEN IF qrReady /\ qrImage # 0
                  THEN [q EXCEPT !.kind = "qr", !.out = <<"photo">>,
                                 !.photo = qrImage, !.pc = "reply"]
                  ELSE [q EXCEPT !.kind = "qr", !.out = <<"status">>,
                                 !.pc = "reply"]
           ELSE IF NoNumbers(numbers)
             THEN [q EXCEPT !.kind = "batch", !.numbers = numbers,
                            !.verdict = "empty", !.out = <<"rejectEmpty">>,
                            !.pc = "reply"]
           ELSE IF TooMany(numbers)
             THEN [q EXCEPT !.kind = "batch", !.numbers = numbers,
                            !.verdict = "tooMany", !.out = <<"rejectMany">>,
                            !.pc = "reply"]
           ELSE IF NotReady
             THEN [q EXCEPT !.kind = "batch", !.numbers = numbers,
                            !.verdict = "notReady", !.pc = "done"]
           ELSE [q EXCEPT !.kind = "batch", !.numbers = numbers,
                          !.verdict = "accepted", !.out = <<"progress">>,
                          !.shown = <<0>>, !.pc = "progress"])
      /\ UNCHANGED <<checkedNumbers, svc, lastOk, rechecked, scen, used>>
      /\ UNCHANGED sessionVars

\* An awaited sendMessage / sendPhoto resolves and the handler returns
\* (lines 229, 236, 242, 250, 256, 364).
ReplySent(r) ==
  /\ r \in Reqs
  /\ req[r].pc \in {"reply", "final"}
  /\ req' = Put(r, [req[r] EXCEPT !.pc = "done"])
  /\ UNCHANGED <<checkedNumbers, svc, lastOk, rechecked, scen, used>>
  /\ UNCHANGED sessionVars

\* A partition after which processedCount starts at 0 instead of
\* cachedNumbers.length.
Partitioned_countFromZero(q) ==
  LET cached == CachedOf(q.numbers, checkedNumbers)
  IN  [q EXCEPT !.cacheAt = checkedNumbers,
                !.cached = cached,
                !.uncached = UncachedOf(q.numbers, checkedNumbers),
                !.registered = HitLines(cached, checkedNumbers, TRUE),
                !.unregistered = HitLines(cached, checkedNumbers, FALSE),
                !.processedCount = 0]

\* lines 267-301: the partition and the cached fast path
Partitioned(q) ==
  LET cached == CachedOf(q.numbers, checkedNumbers)
  IN  [q EXCEPT !.cacheAt = checkedNumbers,
                !.cached = cached,
                !.uncached = UncachedOf(q.numbers, checkedNumbers),
                !.registered = HitLines(cached, checkedNumbers, TRUE),
                !.unregistered = HitLines(cached, checkedNumbers, FALSE),
                !.processedCount = Len(cached)]

\* line 265 resolves: lines 267-323, up to the await of the cache edit
\* (line 294) or, with nothing cached, of the first batch or the report.
ProgressSent(r) ==
  LET q == Partitioned(req[r])
  IN  /\ r \in Reqs
      /\ req[r].pc = "progress"
      /\ IF Len(q.cached) > 0
         THEN /\ req' = Put(r, [q EXCEPT !.shown = Append(@, Len(q.cached)),
                                          !.pc = "cacheEdit"])
              /\ UNCHANGED rechecked
         ELSE /\ req' = Put(r, Loop(q, 0))
              /\ rechecked' = rechecked \cup Rechecks(q, 0)
      /\ UNCHANGED <<checkedNumbers, svc, lastOk, scen, used>>
      /\ UNCHANGED sessionVars

\* line 294 resolves: lines 304-323, the first batch
CacheEditDone(r) ==
  /\ r \in Reqs
  /\ req[r].pc = "cacheEdit"
  /\ req' = Put(r, Loop(req[r], 0))
  /\ rechecked' = rechecked \cup Rechecks(req[r], 0)
  /\ UNCHANGED <<checkedNumbers, svc, lastOk, scen, used>>
  /\ UNCHANGED sessionVars

\* The request with the k-th check of its batch settled as res (lines
\* 313-321); when it was the last one, Promise.allSettled resolves in the
\* same run.
WithResult(q, k, res) ==
  LET q1 == [q EXCEPT !.res[k] = res, !.settled = @ + 1,
                      !.writes = IF res = "err" THEN @ ELSE @ + 1,
                      !.first = IF @ = 0 THEN k ELSE @]
  IN  IF Settled(q1.res) THEN Collect(q1) ELSE q1

Res(result) == IF result THEN "T" ELSE "F"

\* A cache that remembers a failed check as "not registered".
CacheAfter_memoizeFailure(map, num, res) == MapSet(map, num, res = "T")

\* A cache that keeps the first value stored for a key.
CacheAfter_firstWriteWins(map, num, res) ==
  IF res = "err" \/ Has(map, num) THEN map ELSE MapSet(map, num, res = "T")

\* The cache after one check has settled: line 315 runs only when the
\* await on line 314 did not throw.
CacheAfter(map, num, res) ==
  IF res = "err" THEN map ELSE MapSet(map, num, res = "T")

\* A client can answer isRegisteredUser as long as destroy() has not been
\* called on it and its initialize() has not failed; on any other client
\* the call can only reject.
Answers(c) == Live(c)

\* line 314 resolves: lines 315-317
CheckResolves(r, k) ==
  LET q == req[r]
      num == q.batch[k]
      result == svc[num]
  IN  /\ r \in Reqs
      /\ q.pc = "checking"
      /\ k \in 1..Len(q.res)
      /\ q.res[k] = "pending"
      /\ Answers(q.via)
      /\ checkedNumbers' = CacheAfter(checkedNumbers, num, Res(result))
      /\ lastOk' = MapSet(lastOk, num, result)
      /\ req' = Put(r, WithResult(q, k, Res(result)))
      /\ UNCHANGED <<svc, rechecked, scen, used>>
      /\ UNCHANGED sessionVars

\* line 314 rejects: lines 318-320
CheckRejects(r, k) ==
  LET q == req[r]
  IN  /\ r \in Reqs
      /\ q.pc = "checking"
      /\ k \in 1..Len(q.res)
      /\ q.res[k] = "pending"
      /\ IF Answers(q.via)
         THEN used.checkFaults < scen.checkFaults /\ Use("checkFaults")
         ELSE UNCHANGED used
      /\ checkedNumbers' = CacheAfter(checkedNumbers, q.batch[k], "err")
      /\ req' = Put(r, WithResult(q, k, "err"))
      /\ UNCHANGED <<svc, lastOk, rechecked, scen>>
      /\ UNCHANGED sessionVars

\* The next batch issued right after the edit, without the pacing delay.
AfterEdit_noDelay(q) ==
  IF q.i + batchSize < Len(q.uncached)
  THEN Loop(q, q.i + batchSize)
  ELSE Finish(q)

\* lines 349-352 and 354-364: the pacing delay before the next batch, or
\* the final report after the last one
AfterEdit(q) ==
  IF q.i + batchSize < Len(q.uncached)
  THEN [q EXCEPT !.pc = "delay"]
  ELSE Finish(q)

\* line 340 resolves
EditDone(r) ==
  LET q == req[r]
  IN  /\ r \in Reqs
      /\ q.pc = "edit"
      /\ req' = Put(r, AfterEdit(q))
      /\ UNCHANGED <<checkedNumbers, svc, lastOk, rechecked, scen, used>>
      /\ UNCHANGED sessionVars

\* line 350 resolves: i += batchSize and the next batch
PacingElapses(r) ==
  LET q == [req[r] EXCEPT !.delays = @ + 1]
  IN  /\ r \in Reqs
      /\ q.pc = "delay"
      /\ req' = Put(r, Loop(q, q.i + batchSize))
      /\ rechecked' = rechecked \cup Rechecks(q, q.i + batchSize)
      /\ UNCHANGED <<checkedNumbers, svc, lastOk, scen, used>>
      /\ UNCHANGED sessionVars

\* The network changes its answer for a number (an account is created or
\* deleted).
ServiceChanges(x) ==
  /\ x \in Ids
  /\ used.changes < scen.changes
  /\ Use("changes")
  /\ svc' = [svc EXCEPT ![x] = ~@]
  /\ UNCHANGED <<checkedNumbers, req, lastOk, rechecked, scen>>
  /\ UNCHANGED sessionVars

Next ==
  \/ \E c \in 1..MaxClients + 1 : InitializeResolves(c)
  \/ \E c \in 1..MaxClients + 1 : InitializeRejects(c)
  \/ RetryTimerFires
  \/ \E c \in 1..MaxClients + 1 : OnQr(c)
  \/ \E code \in 1..MaxQr + 1 : QrRendered(code)
  \/ \E c \in 1..MaxClients + 1 : OnReady(c)
  \/ \E c \in 1..MaxClients + 1 : OnAuthFailure(c)
  \/ \E c \in 1..MaxClients + 1 : OnDisconnected(c)
  \/ \E h \in 1..MaxDisc + 1 : DestroyResolves(h)
  \/ \E h \in 1..MaxDisc + 1 : DestroyRejects(h)
  \/ \E h \in 1..MaxDisc + 1 : ReconnectDelayElapses(h)
  \/ \E r \in Reqs : Receive(r)
  \/ \E r \in Reqs : ReplySent(r)
  \/ \E r \in Reqs : ProgressSent(r)
  \/ \E r \in Reqs : CacheEditDone(r)
  \/ \E r \in Reqs, k \in 1..batchSize + 1 : CheckResolves(r, k)
  \/ \E r \in Reqs, k \in 1..batchSize + 1 : CheckRejects(r, k)
  \/ \E r \in Reqs : EditDone(r)
  \/ \E r \in Reqs : PacingElapses(r)
  \/ \E x \in Ids : ServiceChanges(x)

Spec == Init /\ [][Next]_vars

\* One step of the "message" handler activation r: the continuation after
\* an awaited Telegram call, WhatsApp call or timer has settled.
RequestStep(r) ==
  \/ ReplySent(r)
  \/ ProgressSent(r)
  \/ CacheEditDone(r)
  \/ \E k \in 1..batchSize : CheckResolves(r, k) \/ CheckRejects(r, k)
  \/ EditDone(r)
  \/ PacingElapses(r)

\* Every call a request awaits settles eventually, and the event loop then
\* runs the continuation.
FairSpec == Spec /\ \A r \in Reqs : WF_vars(RequestStep(r))

\* In addition, a timer set by setTimeout on line 191 fires eventually.
RetrySpec == FairSpec /\ WF_vars(RetryTimerFires)

\* One step of the "disconnected" handler activation h: the continuation
\* after destroy() or delay(3000) has settled.
HandlerStep(h) ==
  \/ DestroyResolves(h)
  \/ DestroyRejects(h)
  \/ ReconnectDelayElapses(h)

InitializeSettles(c) == InitializeResolves(c) \/ InitializeRejects(c)

\* In addition, destroy(), delay(3000) and initialize() settle eventually.
SessionSpec ==
  /\ RetrySpec
  /\ \A h \in 1..MaxDisc : WF_vars(HandlerStep(h))
  /\ \A c \in 1..MaxClients : WF_vars(InitializeSettles(c))

(***************************************************************************)
(* The claims.                                                             *)
(***************************************************************************)
Accepted(q) == q.verdict = "accepted"

Total(q) == Len(q.numbers)

Occurrences(seq, x) == Cardinality({k \in 1..Len(seq) : seq[k] = x})

\* C1: at every instant of an accepted request's checking phase, at most 5
\* of its external isRegistered calls are issued and not yet settled.
C1_AtMostFiveOutstanding ==
  \A r \in Reqs : Outstanding(req[r]) <= 5

\* A request with more than 5 uncached numbers has 5 calls outstanding.
C1_Witness ==
  \E r \in Reqs :
    /\ Accepted(req[r])
    /\ Len(req[r].uncached) > 5
    /\ req[r].pc = "checking"
    /\ Outstanding(req[r]) = 5

\* The lines the last collected batch appended to the two lists.
NewRegistered(q) == SubSeq(q.registered, q.regBefore + 1, Len(q.registered))

NewUnregistered(q) ==
  SubSeq(q.unregistered, q.unrBefore + 1, Len(q.unregistered))

\* How many checks of number x in the batch of q settled as res.
Results(q, x, res) ==
  Cardinality({k \in 1..Len(q.batch) : q.batch[k] = x /\ q.res[k] = res})

\* C2: when a batch has been collected, every failed check of it has
\* exactly one "Error" line in the not-registered list, every successful
\* check has its registered / not-registered line according to the boolean
\* returned, and nothing else was appended; a request with a failed check
\* still ends with its report and one line per number.
C2_ErrorIsolation ==
  \A r \in Reqs :
    LET q == req[r]
    IN  /\ q.pc \in {"edit", "delay"} =>
             /\ \A x \in Ids :
                  /\ Occurrences(NewUnregistered(q), Line(x, "err"))
                       = Results(q, x, "err")
                  /\ Occurrences(NewRegistered(q), Line(x, "ok"))
                       = Results(q, x, "T")
                  /\ Occurrences(NewUnregistered(q), Line(x, "no"))
                       = Results(q, x, "F")
             /\ Len(NewRegistered(q)) + Len(NewUnregistered(q)) = Len(q.batch)
        /\ (Accepted(q) /\ q.pc = "done") =>
             /\ q.out = <<"progress", "report">>
             /\ Len(q.registered) + Len(q.unregistered) = Total(q)

\* A collected batch in which one check failed and another succeeded.
C2_Witness ==
  \E r \in Reqs :
    /\ req[r].pc = "edit"
    /\ \E j, k \in 1..Len(req[r].res) :
         req[r].res[j] = "err" /\ req[r].res[k] \in {"T", "F"}

\* C3: the cache holds exactly the numbers that had a successful check,
\* each with the boolean its last successful check returned; a number that
\* was not in the cache when a request was partitioned is in the uncached
\* list of that request, once for each occurrence.
C3_FailureNotMemoized ==
  /\ checkedNumbers = lastOk
  /\ \A r \in Reqs :
       (Accepted(req[r]) /\ req[r].pc # "progress") =>
         \A x \in Ids :
           ~Has(req[r].cacheAt, x) =>
             Occurrences(req[r].uncached, x) = Occurrences(req[r].numbers, x)

\* The first request has reported an error for a number, the number is
\* not in the cache, and the second request is checking it again.
C3_Witness ==
  \E r1, r2 \in Reqs :
    /\ r1 < r2
    /\ req[r1].pc = "done"
    /\ \E x \in Ids :
         /\ Occurrences(req[r1].unregistered, Line(x, "err")) > 0
         /\ ~Has(checkedNumbers, x)
         /\ req[r2].pc = "checking"
         /\ Occurrences(req[r2].batch, x) > 0

\* C4 as claimed: once a check of a number has succeeded, no later external
\* call is issued for that number.
C4_NoCallAfterSuccess == rechecked = {}

LinesOf(q, x) ==
  Occurrences(q.registered, Line(x, "hitT"))
    + Occurrences(q.unregistered, Line(x, "hitF"))
    + Occurrences(q.registered, Line(x, "ok"))
    + Occurrences(q.unregistered, Line(x, "no"))
    + Occurrences(q.unregistered, Line(x, "err"))

\* C4, amended: a number that is in the cache when a request is partitioned
\* gets no external call from that request (it is in no batch of it), and
\* each of its occurrences is reported with the status the cache held at
\* that time.
C4_CachedAtPartition ==
  \A r \in Reqs :
    (Accepted(req[r]) /\ req[r].pc # "progress") =>
      \A x \in DOMAIN req[r].cacheAt :
        LET q == req[r]
            hits == IF q.cacheAt[x]
                    THEN Occurrences(q.registered, Line(x, "hitT"))
                    ELSE Occurrences(q.unregistered, Line(x, "hitF"))
        IN  /\ Occurrences(q.uncached, x) = 0
            /\ Occurrences(q.batch, x) = 0
            /\ hits = Occurrences(q.numbers, x)
            /\ LinesOf(q, x) = hits

\* A request served a number from the cache and went on to check another
\* number externally.
C4_Witness ==
  \E r \in Reqs :
    /\ Accepted(req[r])
    /\ req[r].pc = "checking"
    /\ \E x \in DOMAIN req[r].cacheAt : Occurrences(req[r].numbers, x) > 0

\* C5: a request with 1 to 50 numbers is never rejected for its size, and
\* with exactly 50 it is processed when the gate of line 261 is open; a
\* request with more than 50 numbers, or with none, gets exactly one
\* rejection message, issues no external call, writes nothing to the cache
\* and builds no outcome line.
C5_Limits ==
  \A r \in Reqs :
    LET q == req[r]
        untouched == /\ q.calls = 0
                     /\ q.writes = 0
                     /\ q.batches = 0
                     /\ q.registered = <<>>
                     /\ q.unregistered = <<>>
    IN  q.kind = "batch" =>
          /\ Total(q) = 0 => q.out = <<"rejectEmpty">> /\ untouched
          /\ Total(q) > 50 => q.out = <<"rejectMany">> /\ untouched
          /\ (Total(q) >= 1 /\ Total(q) <= 50) =>
               /\ q.verdict \in {"accepted", "notReady"}
               /\ q.verdict = "accepted" => q.out[1] = "progress"
               /\ q.verdict = "notReady" => q.out = <<>>

\* A request of exactly 50 numbers has been processed to its report.
C5_Witness ==
  \E r \in Reqs :
    /\ Total(req[r]) = 50
    /\ req[r].pc = "done"
    /\ req[r].out = <<"progress", "report">>
    /\ req[r].calls = 50

\* C6: while calls of batch N+1 of a request are outstanding, every call of
\* its batches 1..N has settled, and N progress edits and N pacing delays
\* have been completed.
C6_BatchesSequential ==
  \A r \in Reqs :
    LET q == req[r]
    IN  Outstanding(q) > 0 =>
          /\ q.settled + Outstanding(q) = q.calls
          /\ Outstanding(q) <= Len(q.batch)
          /\ q.edits = q.batches - 1
          /\ q.delays = q.batches - 1

\* The second batch of a request is being checked.
C6_Witness ==
  \E r \in Reqs :
    /\ req[r].batches = 2
    /\ Outstanding(req[r]) > 0

\* The counts the progress message of q must have shown so far.
ExpectedShown(q) ==
  <<0>> \o (IF Len(q.cached) > 0 THEN <<Len(q.cached)>> ELSE <<>>)
        \o [k \in 1..q.edits |-> Min(Total(q), Len(q.cached) + 5 * k)]

\* C7: the count shown after the k-th uncached batch is
\* min(total, cached.length + 5k); the counts shown never decrease and never
\* exceed total, and the last one shown before the report is total.
C7_ProgressCounts ==
  \A r \in Reqs :
    LET q == req[r]
    IN  Accepted(q) =>
          /\ q.shown = ExpectedShown(q)
          /\ \A k \in 1..Len(q.shown) :
               /\ q.shown[k] <= Total(q)
               /\ k > 1 => q.shown[k - 1] <= q.shown[k]
          /\ q.pc \in {"final", "done"} => q.shown[Len(q.shown)] = Total(q)

\* A request with cached numbers and two uncached batches has finished.
C7_Witness ==
  \E r \in Reqs :
    /\ Accepted(req[r])
    /\ req[r].pc = "done"
    /\ Len(req[r].cached) > 0
    /\ req[r].edits = 2

\* C8 as claimed: a batch request that arrives while the session is not
\* ready produces no outbound message and no external call.
C8_SilentWhileNotReady ==
  \A r \in Reqs :
    (req[r].kind = "batch" /\ ~req[r].sessionUp) =>
      req[r].out = <<>> /\ req[r].calls = 0

\* The startWhatsApp calls made by the disconnected handler or by the retry
\* timer whose initialize() has not settled.
Reinitializing ==
  {c \in 1..Len(clients) :
     clients[c].init = "pending" /\ clients[c].origin # "boot"}

\* C9 as claimed: at most one reinitialization attempt is in progress at
\* any instant.
C9_SingleFlight == Cardinality(Reinitializing) <= 1

Checking(r) == req[r].pc = "checking"

\* C10 as claimed: requests are processed one at a time, so two requests
\* never have external calls outstanding at the same time.
C10_OneAtATime ==
  \A r1, r2 \in Reqs : (Checking(r1) /\ Checking(r2)) => r1 = r2

Named(lines) == {lines[k].num : k \in 1..Len(lines)}

Submitted(q) == {q.numbers[k] : k \in 1..Len(q.numbers)}

\* C10, amended: requests interleave at their awaits, but each request
\* builds its own outcome: every line of its two lists names a number it
\* submitted, it has exactly as many lines as it has counted as processed,
\* and never more than it submitted.
C10_RequestsIsolated ==
  \A r \in Reqs :
    LET q == req[r]
    IN  /\ Named(q.registered) \cup Named(q.unregistered) \subseteq Submitted(q)
        /\ q.pc # "idle" =>
             Len(q.registered) + Len(q.unregistered) = q.processedCount
        /\ q.processedCount <= Total(q)

\* Two requests over different numbers are in their checking phase at the
\* same time, and one of them has collected lines already.
C10_Witness ==
  \E r1, r2 \in Reqs :
    /\ r1 # r2
    /\ Accepted(req[r1]) /\ Accepted(req[r2])
    /\ req[r1].pc \in {"checking", "edit"}
    /\ req[r2].pc = "edit"
    /\ Submitted(req[r1]) # Submitted(req[r2])

\* The checks of the current batch of q that have stored a value.
Stored(q) == {k \in 1..Len(q.res) : q.res[k] \in {"T", "F"}}

\* C11 as claimed: no two checks of one batch store a value for the same
\* identifier.
C11_NoKeyWrittenTwice ==
  \A r \in Reqs :
    \A j, k \in Stored(req[r]) : req[r].batch[j] = req[r].batch[k] => j = k

\* The check of request r at position k settles successfully in this step.
Stores(r, k) ==
  /\ k \in 1..Len(req[r].res)
  /\ req[r].res[k] = "pending"
  /\ req'[r].res[k] \in {"T", "F"}

\* C11, amended: the checks of a batch store their values one at a time.
\* Every step in which a check settles successfully sets the key of that
\* check to the value returned, whether or not another check of the batch
\* has written the key before, and no other step changes the cache.
C11_WritesOneAtATime ==
  [][ /\ \A r \in Reqs : \A k \in 1..batchSize :
           Stores(r, k) =>
             checkedNumbers' = MapSet(checkedNumbers, req[r].batch[k],
                                      req'[r].res[k] = "T")
      /\ checkedNumbers' # checkedNumbers =>
           \E r \in Reqs : \E k \in 1..batchSize : Stores(r, k) ]_vars

\* Two checks of one batch have stored different values for one identifier.
C11_Witness ==
  \E r \in Reqs :
    \E j, k \in Stored(req[r]) :
      /\ req[r].batch[j] = req[r].batch[k]
      /\ req[r].res[j] # req[r].res[k]
      /\ Has(checkedNumbers, req[r].batch[j])

\* The list a settled check goes to, and the line it gets (lines 328-334).
Class(res) == IF res = "T" THEN "registered" ELSE "unregistered"

LineFor(num, res) ==
  Line(num, CASE res = "T" -> "ok" [] res = "F" -> "no" [] OTHER -> "err")

NewLines(q, class) ==
  IF class = "registered" THEN NewRegistered(q) ELSE NewUnregistered(q)

Collected(q) == q.pc \in {"edit", "delay"}

\* C12 as claimed: lines follow completion order, so the line of the check
\* that settled first in a batch is the first line the batch adds to its
\* list.
C12_CompletionOrder ==
  \A r \in Reqs :
    LET q == req[r]
    IN  (Collected(q) /\ q.first # 0) =>
          NewLines(q, Class(q.res[q.first]))[1]
            = LineFor(q.batch[q.first], q.res[q.first])

\* How many checks up to position k of the batch go to the list of k.
Rank(q, k) ==
  Cardinality({i \in 1..k : Class(q.res[i]) = Class(q.res[k])})

IsHit(line) == line.tag \in {"hitT", "hitF"}

HitsFirst(lines) ==
  \A a, b \in 1..Len(lines) : (a < b /\ IsHit(lines[b])) => IsHit(lines[a])

NumsOf(lines) == [k \in 1..Len(lines) |-> lines[k].num]

\* C12, amended: lines follow submission order, whatever the order in which
\* the checks settle.  In each list the lines of the cached identifiers come
\* first, in the order submitted; the lines a batch adds to a list are those
\* of its checks that go to that list, in the order of their positions in
\* the batch.
C12_SubmissionOrder ==
  \A r \in Reqs :
    LET q == req[r]
    IN  /\ HitsFirst(q.registered) /\ HitsFirst(q.unregistered)
        /\ (Accepted(q) /\ q.pc # "progress") =>
             /\ NumsOf(SelectSeq(q.registered, IsHit))
                  = SelectSeq(q.numbers,
                              LAMBDA n : Has(q.cacheAt, n) /\ q.cacheAt[n])
             /\ NumsOf(SelectSeq(q.unregistered, IsHit))
                  = SelectSeq(q.numbers,
                              LAMBDA n : Has(q.cacheAt, n) /\ ~q.cacheAt[n])
        /\ Collected(q) =>
             \A k \in 1..Len(q.batch) :
               /\ Rank(q, k) <= Len(NewLines(q, Class(q.res[k])))
               /\ NewLines(q, Class(q.res[k]))[Rank(q, k)]
                    = LineFor(q.batch[k], q.res[k])

\* A batch has been collected in which the check that settled first was
\* submitted after a check of another identifier that went to the same list.
C12_Witness ==
  \E r \in Reqs :
    LET q == req[r]
    IN  /\ Collected(q)
        /\ q.first > 1
        /\ \E j \in 1..q.first - 1 :
             /\ Class(q.res[j]) = Class(q.res[q.first])
             /\ q.batch[j] # q.batch[q.first]

Reported(q) == q.pc = "done" /\ q.out = <<"progress", "report">>

Failures == Cardinality({c \in 1..Len(clients) : clients[c].init = "failed"})

Retries == Cardinality({c \in 1..Len(clients) : clients[c].origin = "timer"})

Welcomed(q) == q.pc = "done" /\ q.out = <<"welcome">>

\* C14: the n-th failure of initialize() is eventually followed by the n-th
\* retry of startWhatsApp by the timer (unless the run has used up the
\* clients it may create), and a /start command that arrives is eventually
\* answered with the welcome message, whatever the state of the session.
C14_RetryAndResponsive ==
  /\ \A n \in 1..MaxFaults :
       (Failures >= n) ~> (Retries >= n \/ Len(clients) >= scen.clients)
  /\ \A r \in Reqs : (req[r].kind = "start") ~> Welcomed(req[r])

\* initialize() has failed twice, the timer has retried twice, and a /start
\* command received while the session was down has been answered.
C14_Witness ==
  /\ Failures = 2
  /\ Retries = 2
  /\ \E r \in Reqs :
       /\ req[r].kind = "start"
       /\ ~req[r].sessionUp
       /\ Welcomed(req[r])

\* The activation h of the "disconnected" handler has called startWhatsApp.
Reinitialized(h) == \E c \in 1..Len(clients) : clients[c].handler = h

\* C15 as claimed: every "disconnected" event that is not skipped leads to
\* a reinitialization of the session: the handler activation it starts
\* eventually calls startWhatsApp (unless the run has used up the clients it
\* may create).
C15_DisconnectLeadsToReinit ==
  \A h \in 1..MaxDisc :
    (Len(handlers) >= h) ~> (Reinitialized(h) \/ Len(clients) >= scen.clients)

\* a is b with some elements left out.
RECURSIVE IsSubsequence(_, _)
IsSubsequence(a, b) ==
  IF a = <<>> THEN TRUE
  ELSE IF b = <<>> THEN FALSE
  ELSE IF a[1] = b[1] THEN IsSubsequence(Tail(a), Tail(b))
  ELSE IsSubsequence(a, Tail(b))

\* C16: once a request is partitioned, every occurrence of an identifier of
\* its list is in exactly one of cached / uncached: in cached when the
\* identifier was a key of the cache at partition time, in uncached
\* otherwise; the two share no identifier, hold nothing else, and each keeps
\* the relative order of the list.
C16_Partition ==
  \A r \in Reqs :
    LET q == req[r]
    IN  (Accepted(q) /\ q.pc # "progress") =>
          /\ \A x \in Ids :
               /\ Occurrences(q.cached, x)
                    = IF Has(q.cacheAt, x) THEN Occurrences(q.numbers, x) ELSE 0
               /\ Occurrences(q.uncached, x)
                    = IF Has(q.cacheAt, x) THEN 0 ELSE Occurrences(q.numbers, x)
          /\ Submitted(q) \subseteq Ids
          /\ Len(q.cached) + Len(q.uncached) = Len(q.numbers)
          /\ IsSubsequence(q.cached, q.numbers)
          /\ IsSubsequence(q.uncached, q.numbers)

\* A request has been partitioned into a cached part and an uncached part
\* that both hold an identifier more than once, with a cached identifier
\* submitted between uncached ones.
C16_Witness ==
  \E r \in Reqs :
    LET q == req[r]
    IN  /\ Accepted(q) /\ q.pc # "progress"
        /\ \E x \in Ids : Occurrences(q.uncached, x) > 1
        /\ \E j, k, l \in 1..Len(q.numbers) :
             /\ j < k /\ k < l
             /\ ~Has(q.cacheAt, q.numbers[j])
             /\ Has(q.cacheAt, q.numbers[k])
             /\ ~Has(q.cacheAt, q.numbers[l])

\* The digit-only projection of a raw line, and the lines of a text whose
\* projection has more than 8 digits.
Projection(line) == SelectSeq(line, LAMBDA c : c \in Digits)

LongLines(text) == SelectSeq(text, LAMBDA line : Len(Projection(line)) > 8)

IsBatch(q) == q.kind = "batch"

\* C17 as claimed: a line whose digit-only projection has 8 digits or fewer
\* is not in the identifier list, so the list has one identifier for each
\* line with more than 8 digits and no other.
C17_ShortLinesExcluded ==
  \A r \in Reqs :
    IsBatch(req[r]) => Len(req[r].numbers) = Len(LongLines(scen.msgs[r]))

\* The lines the filter keeps: more than 8 digits, or exactly 8 digits of
\* which the first is "0".
Kept(line) ==
  LET d == Projection(line)
  IN  Len(d) > 8 \/ (Len(d) = 8 /\ d[1] = "0")

\* The identifier of a kept line: its digits, with a leading "0" replaced by
\* "62".
IdOf(line) ==
  LET d == Projection(line)
  IN  IF d[1] = "0" THEN <<"6", "2">> \o SubSeq(d, 2, Len(d)) ELSE d

\* C17, amended: the length filter applies to the normalized identifier.  A
\* line is in the identifier list exactly when its digit-only projection has
\* more than 8 digits, or has exactly 8 digits and starts with "0"; the list
\* holds the identifiers of those lines, in order.
C17_FilterAfterNormalize ==
  \A r \in Reqs :
    IsBatch(req[r]) =>
      LET kept == SelectSeq(scen.msgs[r], Kept)
      IN  req[r].numbers = [k \in 1..Len(kept) |-> IdOf(kept[k])]

\* A request with an 8-digit line starting with "0" has counted it in its
\* total, and its identifier has been checked and cached.
C17_Witness ==
  \E r \in Reqs :
    /\ IsBatch(req[r])
    /\ \E k \in 1..Len(scen.msgs[r]) :
         /\ Len(Projection(scen.msgs[r][k])) = 8
         /\ Occurrences(req[r].numbers, IdOf(scen.msgs[r][k])) > 0
         /\ Has(checkedNumbers, IdOf(scen.msgs[r][k]))
    /\ Len(req[r].numbers) = Len(scen.msgs[r])

LineCount(q) == Len(q.registered) + Len(q.unregistered)

\* C18: whenever an accepted request edits its progress message, the count
\* it shows is the number of lines in its two lists; when it sends its
\* report, each identifier has one line for each of its occurrences in the
\* request, so the lists have total lines, and no line names an identifier
\* the request did not submit.
C18_Accounting ==
  \A r \in Reqs :
    LET q == req[r]
    IN  Accepted(q) =>
          /\ q.pc \in {"cacheEdit", "edit"} =>
               q.shown[Len(q.shown)] = LineCount(q)
          /\ \A x \in Ids : LinesOf(q, x) <= Occurrences(q.numbers, x)
          /\ q.pc \in {"final", "done"} =>
               /\ \A x \in Ids : LinesOf(q, x) = Occurrences(q.numbers, x)
               /\ LineCount(q) = Total(q)
          /\ \A k \in 1..Len(q.registered) :
               Occurrences(q.numbers, q.registered[k].num) > 0
          /\ \A k \in 1..Len(q.unregistered) :
               Occurrences(q.numbers, q.unregistered[k].num) > 0

\* A request that submitted an identifier more than once, found some of its
\* identifiers in the cache and had a check fail has sent its report.
C18_Witness ==
  \E r \in Reqs :
    LET q == req[r]
    IN  /\ Accepted(q)
        /\ q.pc = "done"
        /\ \E x \in Ids : Occurrences(q.numbers, x) > 1
        /\ Len(q.cached) > 0
        /\ \E k \in 1..Len(q.unregistered) : q.unregistered[k].tag = "err"

\* The current batch of q was issued while waClient was null.
IssuedOnNull(q) == q.batches > 0 /\ q.via = 0

\* C19: a batch that a request issues while waClient is null gets an
\* "Error" line for each of its checks and no other line, the step that
\* issues it makes no external call and leaves the cache as it was, and the
\* request goes on to its final report.
C19_TeardownMidRequest ==
  /\ [](\A r \in Reqs :
          LET q == req[r]
          IN  (Collected(q) /\ IssuedOnNull(q)) =>
                /\ NewRegistered(q) = <<>>
                /\ NewUnregistered(q)
                     = [k \in 1..Len(q.batch) |-> Line(q.batch[k], "err")])
  /\ [][\A r \in Reqs :
          (req'[r].batches # req[r].batches /\ IssuedOnNull(req'[r])) =>
            /\ checkedNumbers' = checkedNumbers
            /\ req'[r].calls = req[r].calls
            /\ req'[r].writes = req[r].writes]_vars
  /\ \A r \in Reqs :
       (Accepted(req[r]) /\ IssuedOnNull(req[r])) ~> Reported(req[r])

\* A request made external calls for its first batch, the session was torn
\* down, the rest of its checks were issued on a null waClient, and it has
\* sent its report.
C19_Witness ==
  \E r \in Reqs :
    LET q == req[r]
    IN  /\ Accepted(q)
        /\ Reported(q)
        /\ IssuedOnNull(q)
        /\ waClient = 0
        /\ q.calls > 0
        /\ q.calls < Len(q.uncached)

\* C20 as claimed: a "qr" command answered with an image gets the image of
\* the last pairing code the current client has emitted.
C20_ImageIsLatest ==
  \A r \in Reqs :
    (req[r].kind = "qr" /\ req[r].out = <<"photo">>) =>
      req[r].photo = req[r].fresh
====
